---------------------------- MODULE Spec2Model ----------------------------
(***************************************************************************)
(* State-machine model of ChatWSManager                                    *)
(* (frontend/src/utils/ChatWSManager.ts): the singleton that owns one      *)
(* WebSocket, the authorization gate, the outbound queue, the heartbeat    *)
(* and the reconnect timer.                                                *)
(*                                                                         *)
(* The manager's fields are the variables of the same name.  The handlers  *)
(* the manager installs on a WebSocket close over the manager alone, never *)
(* over the socket, so a socket is known by its readyState and by whether  *)
(* this.ws still refers to it: ws is the readyState of the socket this.ws  *)
(* refers to (NULL when this.ws is null), and orphans counts, per          *)
(* readyState, the sockets the manager constructed, no longer refers to    *)
(* and that can still deliver events.  calls are the promises              *)
(* ensureAuthorized returned that are still pending.                       *)
(* op and fx describe the last step: the operation that ran and, in order, *)
(* the externally visible effects it had (transports constructed, frames   *)
(* written, callbacks invoked, promises resolved, state assignments).      *)
(*                                                                         *)
(* JavaScript is run-to-completion: every public method, every transport   *)
(* event handler and every timer callback is one atomic action, with all   *)
(* the calls it makes.  ensureAuthorized awaits connect(), whose promise   *)
(* is already resolved; its continuation is a microtask that runs before   *)
(* any other event or timer, and the repository's callers await the call   *)
(* at once (Login.tsx 2787), so the call is one action as well.            *)
(***************************************************************************)
EXTENDS Integers, Sequences, FiniteSets, TLC

\* ------------------------------------------------------------------ bounds
\* WebSocket objects that can still deliver an event, at once.
MaxSockets == 2
\* The highest payload number in Spec: send() is called while the last
\* payload queued has a lower one.
MaxSends == 3
\* ensureAuthorized() calls pending at once.
MaxCalls == 1
\* Reconnects scheduled in a row with no open in between, in a run of Spec.
MaxAttempts == 1
\* The highest payload number in SpecQueue (must exceed MAX_QUEUE).
MaxEnq == 103
\* Reconnects scheduled in a row with no open in between, in a run of
\* SpecBackoff (must exceed MAX_ATTEMPT).
MaxBackoff == 12
\* ensureAuthorized calls outstanding at once where calls are set against
\* each other.
MaxWaiters == 2

\* --------------------------------------------------------- program constants
\* ChatWSManager.ts:225  const MAX_QUEUE = 100
MAX_QUEUE == 100
\* ChatWSManager.ts:266  Math.min(this.reconnectAttempts + 1, 10)
MAX_ATTEMPT == 10
\* ChatWSManager.ts:264  const base = 1000
BASE_DELAY == 1000
\* ChatWSManager.ts:265  const max = 15000
MAX_DELAY == 15000
\* ChatWSManager.ts:267  Math.random() * 300
JITTER_CEILING == 300

\* Math.random() * 300 lies in [0, 300); the timer counts whole milliseconds,
\* so the jitter is a number of 0..299: the two ends of the range stand for it.
Jitters == {0, JITTER_CEILING - 1}

NULL == "null"

\* The option objects callers pass to updateSessionContext: a base context,
\* one that differs from it in the mode alone, and one for another session,
\* whose endpoint differs with it (Login.tsx 2155-2157 builds the url from
\* the session).
Contexts ==
    { [url |-> "u1", sessionId |-> "s1", isAssistantMode |-> FALSE],
      [url |-> "u1", sessionId |-> "s1", isAssistantMode |-> TRUE],
      [url |-> "u2", sessionId |-> "s2", isAssistantMode |-> FALSE] }

\* Option objects with an empty string for the session, or for the endpoint
\* and the session: the fields are strings (line 56) and an empty one is
\* unset to the tests of lines 76 and 261, as null is.
EmptyContexts ==
    { [url |-> NULL, sessionId |-> NULL, isAssistantMode |-> FALSE],
      [url |-> "u1", sessionId |-> NULL, isAssistantMode |-> FALSE] }

\* Inbound frames by what ws.onmessage can tell apart: the parsed type, or a
\* payload JSON.parse rejects.
BusinessTypes == {"history", "message", "reference", "audio", "done"}
FrameKinds == {"auth_success", "pong", "error", "nonjson"} \cup BusinessTypes

\* Frames the manager itself writes.
AuthFrame == "authorization"
PingFrame == "ping"

\* The readyState of a socket that can still deliver an event.
LiveStates == {"CONNECTING", "OPEN", "CLOSING"}

\* Which socket an event or an effect is about.
Cur == "ws"
Orphan == "orphan"
CallIds == 1..MaxCalls

VARIABLES
    ws,                  \* this.ws: the readyState of the socket it refers to, NULL for null
    url,                 \* this.url
    sessionId,           \* this.sessionId
    isAssistantMode,     \* this.isAssistantMode
    state,               \* this.state
    heartbeatTimer,      \* this.heartbeatTimer is set
    reconnectTimer,      \* this.reconnectTimer is set
    reconnectAttempts,   \* this.reconnectAttempts
    explicitlyClosed,    \* this.explicitlyClosed
    sendQueue,           \* this.sendQueue
    authorized,          \* this.authorized
    awaitingAuthResolve, \* this.awaitingAuthResolve: the call whose resolver it holds, 0 for null
    connectedUrl,        \* this.connectedUrl
    connectedSessionId,  \* this.connectedSessionId
    orphans,             \* live sockets this.ws no longer refers to, per readyState
    calls,               \* the pending ensureAuthorized promises and their timers
    authCb,              \* onAuthSuccess invocations since the last attempt or close()
    sinceClose,          \* close() has run and connect() has not been called since
    scheduled,           \* reconnects scheduled since the last open event
    reconnectTimeouts,   \* timeouts set by scheduleReconnect, neither fired nor cleared
    op,                  \* the last operation
    fx                   \* its effects, in order

vars == << ws, url, sessionId, isAssistantMode, state, heartbeatTimer,
           reconnectTimer, reconnectAttempts, explicitlyClosed, sendQueue,
           authorized, awaitingAuthResolve, connectedUrl, connectedSessionId,
           orphans, calls, authCb, sinceClose, scheduled, reconnectTimeouts,
           op, fx >>

\* The manager's fields, the part of the state a frame condition speaks of.
mgrVars == << ws, url, sessionId, isAssistantMode, state, heartbeatTimer,
              reconnectTimer, reconnectAttempts, explicitlyClosed, sendQueue,
              authorized, awaitingAuthResolve, connectedUrl, connectedSessionId >>

\* The whole state as one record, so that a handler is a function from the
\* state before it to the state after it and handlers compose as in the code.
\* stuck marks a step the bounds of the model do not allow; jitter is what
\* Math.random() * 300 comes to in the step.
World ==
    [ ws |-> ws, url |-> url, sessionId |-> sessionId,
      isAssistantMode |-> isAssistantMode, state |-> state,
      heartbeatTimer |-> heartbeatTimer, reconnectTimer |-> reconnectTimer,
      reconnectAttempts |-> reconnectAttempts,
      explicitlyClosed |-> explicitlyClosed, sendQueue |-> sendQueue,
      authorized |-> authorized, awaitingAuthResolve |-> awaitingAuthResolve,
      connectedUrl |-> connectedUrl, connectedSessionId |-> connectedSessionId,
      orphans |-> orphans, calls |-> calls,
      authCb |-> authCb, sinceClose |-> sinceClose, scheduled |-> scheduled,
      reconnectTimeouts |-> reconnectTimeouts,
      fx |-> <<>>, stuck |-> FALSE, jitter |-> 0 ]

\* The step from the state to w, by operation o, with at most cap reconnects
\* scheduled in a row.
CommitUpTo(w, o, cap) ==
    /\ ~w.stuck
    /\ w.scheduled <= cap
    /\ ws' = w.ws
    /\ url' = w.url
    /\ sessionId' = w.sessionId
    /\ isAssistantMode' = w.isAssistantMode
    /\ state' = w.state
    /\ heartbeatTimer' = w.heartbeatTimer
    /\ reconnectTimer' = w.reconnectTimer
    /\ reconnectAttempts' = w.reconnectAttempts
    /\ explicitlyClosed' = w.explicitlyClosed
    /\ sendQueue' = w.sendQueue
    /\ authorized' = w.authorized
    /\ awaitingAuthResolve' = w.awaitingAuthResolve
    /\ connectedUrl' = w.connectedUrl
    /\ connectedSessionId' = w.connectedSessionId
    /\ orphans' = w.orphans
    /\ calls' = w.calls
    /\ authCb' = w.authCb
    /\ sinceClose' = w.sinceClose
    /\ scheduled' = w.scheduled
    /\ reconnectTimeouts' = w.reconnectTimeouts
    /\ op' = o
    /\ fx' = w.fx

Commit(w, o) == CommitUpTo(w, o, MaxAttempts)

Min(a, b) == IF a <= b THEN a ELSE b

\* One effect of a step.  e: what happened; who: the socket it concerns (Cur,
\* Orphan or ""); k: the frame kind, callback name, state or result; n: the
\* payload, call or attempt number (0 when none).
Fx(e, who, k, n) == [e |-> e, who |-> who, k |-> k, n |-> n]

Emit(w, e) == [w EXCEPT !.fx = Append(@, e)]

\* An assignment to this.state.
SetState(w, s) == Emit([w EXCEPT !.state = s], Fx("state", "", s, 0))

\* A frame as (kind, number): a payload send() submitted, or a control frame.
Data(p) == <<"data", p>>
Control(k) == <<k, 0>>

\* ------------------------------------------------------------ the WebSocket
\* this.ws && this.ws.readyState === WebSocket.OPEN
IsOpen(w) == w.ws = "OPEN"

\* The sockets that can still deliver an event.
Live(w) ==
    (IF w.ws \in LiveStates THEN 1 ELSE 0)
    + w.orphans["CONNECTING"] + w.orphans["OPEN"] + w.orphans["CLOSING"]

\* this.ws stops referring to its socket: a live one becomes an orphan.
Detach(w) ==
    IF w.ws \in LiveStates
    THEN [w EXCEPT !.orphans[w.ws] = @ + 1, !.ws = NULL]
    ELSE [w EXCEPT !.ws = NULL]

\* this.ws.send: throws on a CONNECTING socket (InvalidStateError) and, on an
\* OPEN one, when the environment makes it fail; on a CLOSING or CLOSED socket
\* it returns and the frame is discarded.
SendThrows(w, fail) == w.ws = "CONNECTING" \/ (w.ws = "OPEN" /\ fail)

\* The effect of a ws.send also tells what the socket's readyState (rs) and
\* this.authorized (auth) are as the frame is written.
SockSend(w, frame, fail) ==
    Emit(w, [e |-> IF SendThrows(w, fail) THEN "txthrow"
                   ELSE IF w.ws = "OPEN" THEN "tx"
                   ELSE "txdrop",
             who |-> Cur, k |-> frame[1], n |-> frame[2],
             rs |-> w.ws, auth |-> w.authorized])

\* this.ws.close(): starts the closing handshake; the close event follows
\* later, as an event of its own.
SockClose(w) ==
    Emit([w EXCEPT !.ws = IF @ \in {"CONNECTING", "OPEN"} THEN "CLOSING"
                          ELSE @],
         Fx("wsclose", Cur, "", 0))

\* --------------------------------------------------------------- the timers
stopHeartbeat(w) ==
    IF w.heartbeatTimer THEN [w EXCEPT !.heartbeatTimer = FALSE] ELSE w

startHeartbeat(w) == [stopHeartbeat(w) EXCEPT !.heartbeatTimer = TRUE]

clearReconnectTimer(w) ==
    IF w.reconnectTimer
    THEN [w EXCEPT !.reconnectTimer = FALSE, !.reconnectTimeouts = @ - 1]
    ELSE w

\* Math.pow(2, k)
RECURSIVE Pow2(_)
Pow2(k) == IF k <= 0 THEN 1 ELSE 2 * Pow2(k - 1)

\* scheduleReconnect with the delay doubled without the cap of line 268.
scheduleReconnect_NoCap(w) ==
    IF w.explicitlyClosed \/ w.reconnectTimer
         \/ w.url = NULL \/ w.sessionId = NULL
    THEN w
    ELSE LET attempt == Min(w.reconnectAttempts + 1, MAX_ATTEMPT)
             delay == BASE_DELAY * Pow2(attempt - 1) + w.jitter
         IN  Emit(Emit([w EXCEPT !.reconnectAttempts = attempt,
                                 !.reconnectTimer = TRUE,
                                 !.reconnectTimeouts = @ + 1,
                                 !.scheduled = @ + 1],
                       Fx("schedule", "", "", attempt)),
                  Fx("setTimeout", "", "", delay))

\* scheduleReconnect as it would be without the test of line 262: the variant
\* C26 is checked against.
scheduleReconnect_NoPendingGuard(w) ==
    IF w.explicitlyClosed THEN w
    ELSE IF w.url = NULL \/ w.sessionId = NULL THEN w
    ELSE LET attempt == Min(w.reconnectAttempts + 1, MAX_ATTEMPT)
             delay == Min(BASE_DELAY * Pow2(attempt - 1), MAX_DELAY) + w.jitter
         IN  Emit(Emit([w EXCEPT !.reconnectAttempts = attempt,
                                 !.reconnectTimer = TRUE,
                                 !.reconnectTimeouts = @ + 1,
                                 !.scheduled = @ + 1],
                       Fx("schedule", "", "", attempt)),
                  Fx("setTimeout", "", "", delay))

\* scheduleReconnect as it would be without the test of line 261: the variant
\* C33 is checked against.
scheduleReconnect_NoContextGuard(w) ==
    IF w.explicitlyClosed THEN w
    ELSE IF w.reconnectTimer THEN w
    ELSE LET attempt == Min(w.reconnectAttempts + 1, MAX_ATTEMPT)
             delay == Min(BASE_DELAY * Pow2(attempt - 1), MAX_DELAY) + w.jitter
         IN  Emit(Emit([w EXCEPT !.reconnectAttempts = attempt,
                                 !.reconnectTimer = TRUE,
                                 !.reconnectTimeouts = @ + 1,
                                 !.scheduled = @ + 1],
                       Fx("schedule", "", "", attempt)),
                  Fx("setTimeout", "", "", delay))

scheduleReconnect(w) ==
    IF w.explicitlyClosed THEN w
    ELSE IF w.url = NULL \/ w.sessionId = NULL THEN w
    ELSE IF w.reconnectTimer THEN w
    ELSE LET attempt == Min(w.reconnectAttempts + 1, MAX_ATTEMPT)
             delay == Min(BASE_DELAY * Pow2(attempt - 1), MAX_DELAY) + w.jitter
         IN  Emit(Emit([w EXCEPT !.reconnectAttempts = attempt,
                                 !.reconnectTimer = TRUE,
                                 !.reconnectTimeouts = @ + 1,
                                 !.scheduled = @ + 1],
                       Fx("schedule", "", "", attempt)),
                  Fx("setTimeout", "", "", delay))

\* ---------------------------------------------------------------- the queue
\* The payload a send() call submits: payloads are told apart by a number,
\* and the caller's next payload is one the queue q does not hold, numbered
\* after the last one queued.
NextPayload(q) == IF q = <<>> THEN 1 ELSE q[Len(q)] + 1

\* enqueue as it would be without the shift of lines 226-228: the variant C5
\* is checked against.
enqueue_NoShift(w, payload) ==
    [w EXCEPT !.sendQueue = Append(w.sendQueue, payload)]

enqueue(w, payload) ==
    LET q == IF Len(w.sendQueue) >= MAX_QUEUE THEN Tail(w.sendQueue)
             ELSE w.sendQueue
    IN  [w EXCEPT !.sendQueue = Append(q, payload)]

\* The frames flushQueue hands to ws.send, in order: the queue up to and
\* including the one whose send throws (failAt, 0 when none does).
FlushTried(q, failAt) ==
    IF failAt \in 1..Len(q) THEN SubSeq(q, 1, failAt) ELSE q

RECURSIVE FlushSends(_, _, _)
FlushSends(w, items, failAt) ==
    IF items = <<>> THEN w
    ELSE FlushSends(SockSend(w, Data(Head(items)), failAt = 1), Tail(items),
                    failAt - 1)

\* Each iteration shifts the head off the queue and then sends it; a throwing
\* send ends the loop.
flushQueue(w, failAt) ==
    IF w.ws = NULL \/ ~IsOpen(w) \/ ~w.authorized THEN w
    ELSE LET tried == FlushTried(w.sendQueue, failAt)
             sent == FlushSends(w, tried, failAt)
         IN  [sent EXCEPT !.sendQueue =
                  SubSeq(w.sendQueue, Len(tried) + 1, Len(w.sendQueue))]

\* ------------------------------------------------------------------ close()
\* close() as it would be without the test of line 175: the variant C16 is
\* checked against.
close_Unguarded(w) ==
    LET w1 == stopHeartbeat([w EXCEPT !.explicitlyClosed = TRUE])
        w2 == Detach(SockClose(SetState(w1, "closing")))
        w3 == clearReconnectTimer(SetState(w2, "closed"))
    IN  [Emit(w3, Fx("close", "", "", 0)) EXCEPT
             !.sendQueue = <<>>, !.authorized = FALSE,
             !.sinceClose = TRUE, !.authCb = 0]

\* close() as it would be without the clearReconnectTimer() of line 181: the
\* variant C15 is checked against.
close_TimerKept(w) ==
    LET w1 == stopHeartbeat([w EXCEPT !.explicitlyClosed = TRUE])
        w2 == IF w1.ws # NULL
              THEN Detach(SockClose(SetState(w1, "closing")))
              ELSE w1
        w3 == SetState(w2, "closed")
    IN  [Emit(w3, Fx("close", "", "", 0)) EXCEPT
             !.sendQueue = <<>>, !.authorized = FALSE,
             !.sinceClose = TRUE, !.authCb = 0]

\* close() as it would be without line 173: the variant C3 is checked
\* against.
close_FlagNotSet(w) ==
    LET w1 == stopHeartbeat(w)
        w2 == IF w1.ws # NULL
              THEN Detach(SockClose(SetState(w1, "closing")))
              ELSE w1
        w3 == clearReconnectTimer(SetState(w2, "closed"))
    IN  [Emit(w3, Fx("close", "", "", 0)) EXCEPT
             !.sendQueue = <<>>, !.authorized = FALSE,
             !.sinceClose = TRUE, !.authCb = 0]

close(w) ==
    LET w1 == stopHeartbeat([w EXCEPT !.explicitlyClosed = TRUE])
        w2 == IF w1.ws # NULL
              THEN Detach(SockClose(SetState(w1, "closing")))
              ELSE w1
        w3 == clearReconnectTimer(SetState(w2, "closed"))
    IN  [Emit(w3, Fx("close", "", "", 0)) EXCEPT
             !.sendQueue = <<>>, !.authorized = FALSE,
             !.sinceClose = TRUE, !.authCb = 0]

\* ---------------------------------------------------------------- connect()
\* new WebSocket(currentUrl) and the assignments that follow it: this.ws now
\* refers to the new socket, and the one it referred to keeps its handlers.
Construct(w) ==
    LET w1 == Detach(w)
    IN  IF Live(w1) >= MaxSockets THEN [w EXCEPT !.stuck = TRUE]
        ELSE Emit([w1 EXCEPT !.ws = "CONNECTING",
                             !.connectedUrl = w.url,
                             !.connectedSessionId = w.sessionId],
                  Fx("new", Cur, w.url, 0))

\* connect() as it would be without the guard of line 89: the variant C2 is
\* checked against.
ConnectBody_NoConnectingGuard(w, ok) ==
    IF w.url = NULL \/ w.sessionId = NULL THEN w
    ELSE LET usable == w.ws # NULL /\ w.state = "open" /\ IsOpen(w)
             sameTarget == /\ w.connectedUrl = w.url
                           /\ w.connectedSessionId = w.sessionId
         IN  IF usable /\ sameTarget THEN w
             ELSE LET w1 == IF usable THEN close(w) ELSE w
                      w2 == SetState([w1 EXCEPT
                                        !.explicitlyClosed = FALSE,
                                        !.authorized = FALSE,
                                        !.authCb = 0], "connecting")
                  IN  IF ok THEN Construct(w2)
                      ELSE scheduleReconnect(
                               SetState(Emit(w2, Fx("newthrow", "",
                                                    w.url, 0)),
                                        "closed"))

\* connect() as it would be without the reuse of lines 79-83, an open
\* connection being closed and replaced whatever its target: the variant C8
\* is checked against.
ConnectBody_NoReuse(w, ok) ==
    IF w.url = NULL \/ w.sessionId = NULL THEN w
    ELSE LET usable == w.ws # NULL /\ w.state = "open" /\ IsOpen(w)
             w1 == IF usable THEN close(w) ELSE w
         IN  IF w1.state = "connecting" THEN w1
             ELSE LET w2 == SetState([w1 EXCEPT
                               !.explicitlyClosed = FALSE,
                               !.authorized = FALSE,
                               !.authCb = 0], "connecting")
                  IN  IF ok THEN Construct(w2)
                      ELSE scheduleReconnect(
                               SetState(Emit(w2, Fx("newthrow", "",
                                                    w.url, 0)),
                                        "closed"))

\* connect() as it would be if its catch block only set the state, without
\* line 168: the variant C31 is checked against.
ConnectBody_NoRetryOnThrow(w, ok) ==
    IF w.url = NULL \/ w.sessionId = NULL THEN w
    ELSE LET usable == w.ws # NULL /\ w.state = "open" /\ IsOpen(w)
             sameTarget == /\ w.connectedUrl = w.url
                           /\ w.connectedSessionId = w.sessionId
         IN  IF usable /\ sameTarget THEN w
             ELSE LET w1 == IF usable THEN close(w) ELSE w
                  IN  IF w1.state = "connecting" THEN w1
                      ELSE LET w2 == SetState([w1 EXCEPT
                                        !.explicitlyClosed = FALSE,
                                        !.authorized = FALSE,
                                        !.authCb = 0], "connecting")
                           IN  IF ok THEN Construct(w2)
                               ELSE SetState(Emit(w2, Fx("newthrow", "",
                                                         w.url, 0)),
                                             "closed")

\* ok: whether new WebSocket() returns (TRUE) or throws (FALSE).
ConnectBody(w, ok) ==
    IF w.url = NULL \/ w.sessionId = NULL THEN w
    ELSE LET usable == w.ws # NULL /\ w.state = "open" /\ IsOpen(w)
             sameTarget == /\ w.connectedUrl = w.url
                           /\ w.connectedSessionId = w.sessionId
         IN  IF usable /\ sameTarget THEN w
             ELSE LET w1 == IF usable THEN close(w) ELSE w
                  IN  IF w1.state = "connecting" THEN w1
                      ELSE LET w2 == SetState([w1 EXCEPT
                                        !.explicitlyClosed = FALSE,
                                        !.authorized = FALSE,
                                        !.authCb = 0], "connecting")
                           IN  IF ok THEN Construct(w2)
                               ELSE scheduleReconnect(
                                        SetState(Emit(w2, Fx("newthrow", "",
                                                             w.url, 0)),
                                                 "closed"))

connect(w, ok) ==
    [ConnectBody(Emit(w, Fx("connect", "", "", 0)), ok) EXCEPT
         !.sinceClose = FALSE]

\* send() as it would be if line 213 did not ask for this.authorized: the
\* variant C14 is checked against.
send_NoAuthGate(w, fail, ok) ==
    LET payload == NextPayload(w.sendQueue)
        w1 == Emit(w, Fx("send", "", "", payload))
    IN  IF w1.ws # NULL /\ IsOpen(w1)
        THEN IF fail
             THEN enqueue(SockSend(w1, Data(payload), TRUE), payload)
             ELSE SockSend(w1, Data(payload), FALSE)
        ELSE connect(enqueue(w1, payload), ok)

\* ------------------------------------------------------------------- send()
\* fail: whether the direct ws.send throws; ok: as for connect.
send(w, fail, ok) ==
    LET payload == NextPayload(w.sendQueue)
        w1 == Emit(w, Fx("send", "", "", payload))
    IN  IF w1.ws # NULL /\ IsOpen(w1) /\ w1.authorized
        THEN IF fail
             THEN enqueue(SockSend(w1, Data(payload), TRUE), payload)
             ELSE SockSend(w1, Data(payload), FALSE)
        ELSE connect(enqueue(w1, payload), ok)

\* hasToken: whether localStorage holds a token.  The frame goes to this.ws,
\* whichever socket that is by now; a throwing send is swallowed.
sendAuthorization(w, hasToken, fail) ==
    IF ~hasToken THEN w
    ELSE IF w.ws = NULL THEN w
    ELSE SockSend(w, Control(AuthFrame), fail)

\* ------------------------------------------------------ ensureAuthorized()
\* The resolver stored in this.awaitingAuthResolve by call c (lines 201-207).
Resolver(w, c, v) ==
    IF w.calls[c].status = "pending"
    THEN Emit([w EXCEPT !.calls[c] = [status |-> "none", timer |-> FALSE]],
              Fx("resolve", "", IF v THEN "true" ELSE "false", c))
    ELSE w

\* The timeout callback as it would be without line 197: the variant C10 is
\* checked against.
TimeoutBody_SlotKept(w, c) ==
    LET w1 == [w EXCEPT !.calls[c].timer = FALSE]
    IN  IF w1.calls[c].status = "pending"
        THEN Emit([w1 EXCEPT !.calls[c].status = "none"],
                  Fx("resolve", "", "false", c))
        ELSE w1

\* The timeout callback as it would be if it resolved its call only while
\* the slot still holds that call's resolver: the variant C39 is checked
\* against.
TimeoutBody_OverwrittenLost(w, c) ==
    LET w1 == [w EXCEPT !.calls[c].timer = FALSE]
    IN  IF w1.calls[c].status = "pending" /\ w1.awaitingAuthResolve = c
        THEN Emit([w1 EXCEPT !.calls[c].status = "none",
                             !.awaitingAuthResolve = 0],
                  Fx("resolve", "", "false", c))
        ELSE w1

\* The timeout callback of call c (lines 194-200).
TimeoutBody(w, c) ==
    LET w1 == [w EXCEPT !.calls[c].timer = FALSE]
    IN  IF w1.calls[c].status = "pending"
        THEN Emit([w1 EXCEPT !.calls[c].status = "none",
                             !.awaitingAuthResolve = 0],
                  Fx("resolve", "", "false", c))
        ELSE w1

\* return true (lines 187 and 191): the promise of call c is fulfilled at once.
ReturnTrue(w, c) ==
    Emit(w, Fx("resolve", "", "true", c))

\* ensureAuthorized as it would be if it called connect() before looking at
\* the transport: the variant C23 is checked against.
ensureAuthorized_AlwaysConnects(w, c, ok) ==
    LET w1 == connect(w, ok)
    IN  IF w1.ws # NULL /\ IsOpen(w1) /\ w1.authorized THEN ReturnTrue(w1, c)
        ELSE IF w1.authorized THEN ReturnTrue(w1, c)
        ELSE Emit([w1 EXCEPT !.calls[c] = [status |-> "pending",
                                           timer |-> TRUE],
                             !.awaitingAuthResolve = c],
                  Fx("wait", "", "", c))

ensureAuthorized(w, c, ok) ==
    IF w.ws # NULL /\ IsOpen(w) /\ w.authorized THEN ReturnTrue(w, c)
    ELSE LET w1 == IF w.ws = NULL \/ ~IsOpen(w) THEN connect(w, ok) ELSE w
         IN  IF w1.authorized THEN ReturnTrue(w1, c)
             ELSE Emit([w1 EXCEPT !.calls[c] = [status |-> "pending",
                                                timer |-> TRUE],
                                  !.awaitingAuthResolve = c],
                       Fx("wait", "", "", c))

\* ------------------------------------------------- the transport's handlers
\* The onOpen callback Login.tsx registers (2166-2174): in traditional mode it
\* requests the history with chatWSManager.send.
onOpenCallback(w, cbSend, fail, ok) ==
    LET w1 == Emit(w, Fx("cb", "", "onOpen", 0))
    IN  IF cbSend THEN send(w1, fail, ok) ELSE w1

\* ws.onopen as it would be without line 107: the variant C27 is checked
\* against.
onopen_NoReset(w, hasToken, cbSend, fail, ok, failAuth) ==
    LET w1 == startHeartbeat(SetState(w, "open"))
    IN  sendAuthorization(onOpenCallback(w1, cbSend, fail, ok), hasToken,
                          failAuth)

\* ws.onopen (lines 105-111).
onopen(w, hasToken, cbSend, fail, ok, failAuth) ==
    LET w1 == startHeartbeat([SetState(w, "open") EXCEPT
                                  !.reconnectAttempts = 0])
    IN  sendAuthorization(onOpenCallback(w1, cbSend, fail, ok), hasToken,
                          failAuth)

onAuthSuccessCallback(w) ==
    [Emit(w, Fx("cb", "", "onAuthSuccess", 0)) EXCEPT !.authCb = @ + 1]

\* if (this.awaitingAuthResolve) { this.awaitingAuthResolve(true); ... = null }
ReleaseWaiter(w) ==
    IF w.awaitingAuthResolve # 0
    THEN [Resolver(w, w.awaitingAuthResolve, TRUE) EXCEPT
              !.awaitingAuthResolve = 0]
    ELSE w

\* The auth_success branch as it would be without the flush of line 122: the
\* variant C4 is checked against.
OnAuthSuccessFrame_NoFlush(w, failAt) ==
    LET becameAuthorized == ~w.authorized
        w1 == [w EXCEPT !.authorized = TRUE]
        w2 == IF becameAuthorized THEN onAuthSuccessCallback(w1) ELSE w1
    IN  ReleaseWaiter(w2)

\* The auth_success branch as it would be without the becameAuthorized test
\* of line 120: the variant C6 is checked against.
OnAuthSuccessFrame_Unguarded(w, failAt) ==
    LET w1 == [w EXCEPT !.authorized = TRUE]
    IN  ReleaseWaiter(onAuthSuccessCallback(flushQueue(w1, failAt)))

\* The auth_success branch (lines 117-130).
OnAuthSuccessFrame(w, failAt) ==
    LET becameAuthorized == ~w.authorized
        w1 == [w EXCEPT !.authorized = TRUE]
        w2 == IF becameAuthorized
              THEN onAuthSuccessCallback(flushQueue(w1, failAt))
              ELSE w1
    IN  ReleaseWaiter(w2)

\* The implicit-authorization branch as it would be if it left the waiter
\* alone (without lines 141-144): the variant C7 is checked against.
OnBusinessFrame_WaiterKept(w, failAt) ==
    IF ~w.authorized
    THEN onAuthSuccessCallback(
             flushQueue([w EXCEPT !.authorized = TRUE], failAt))
    ELSE w

\* The implicit-authorization branch (lines 136-147).
OnBusinessFrame(w, failAt) ==
    IF ~w.authorized
    THEN ReleaseWaiter(onAuthSuccessCallback(
             flushQueue([w EXCEPT !.authorized = TRUE], failAt)))
    ELSE w

\* ws.onmessage as it would be without the return of line 133: the variant C19
\* is checked against.
onmessage_PongForwarded(w, kind, failAt) ==
    IF kind = "auth_success" THEN OnAuthSuccessFrame(w, failAt)
    ELSE LET w1 == IF kind \in BusinessTypes THEN OnBusinessFrame(w, failAt)
                   ELSE w
         IN  Emit(w1, Fx("onMessage", "", kind, 0))

\* ws.onmessage as it would be if JSON.parse's exception left the handler:
\* the variant C20 is checked against.
onmessage_ThrowOnNonJson(w, kind, failAt) ==
    IF kind = "auth_success" THEN OnAuthSuccessFrame(w, failAt)
    ELSE IF kind \in {"pong", "nonjson"} THEN w
    ELSE LET w1 == IF kind \in BusinessTypes THEN OnBusinessFrame(w, failAt)
                   ELSE w
         IN  Emit(w1, Fx("onMessage", "", kind, 0))

\* ws.onmessage (lines 113-152).  kind "nonjson" is a payload JSON.parse
\* throws on; "error" stands for every type the gate does not know.
onmessage(w, kind, failAt) ==
    IF kind = "auth_success" THEN OnAuthSuccessFrame(w, failAt)
    ELSE IF kind = "pong" THEN w
    ELSE LET w1 == IF kind \in BusinessTypes THEN OnBusinessFrame(w, failAt)
                   ELSE w
         IN  Emit(w1, Fx("onMessage", "", kind, 0))

\* ws.onmessage with a caller-supplied onAuthSuccess that may throw.  The call
\* of line 123 (140 for a business frame) is inside the try of line 115, so
\* the exception leaves the branch before its waiter release and its return,
\* is caught at line 148 and the frame goes on to onMessage (line 151).
onmessageCb(w, kind, failAt, cbThrows) ==
    IF /\ cbThrows
       /\ kind \in {"auth_success"} \cup BusinessTypes
       /\ ~w.authorized
    THEN LET w1 == onAuthSuccessCallback(
                       flushQueue([w EXCEPT !.authorized = TRUE], failAt))
         IN  Emit(Emit(w1, Fx("cbthrow", "", "onAuthSuccess", 0)),
                  Fx("onMessage", "", kind, 0))
    ELSE onmessage(w, kind, failAt)

\* ws.onclose as it would be if it emptied the queue as close() does: the
\* variant C21 is checked against.
onclose_QueueCleared(w) ==
    LET w1 == Emit(stopHeartbeat(SetState([w EXCEPT !.sendQueue = <<>>],
                                          "closed")),
                   Fx("cb", "", "onClose", 0))
    IN  IF ~w1.explicitlyClosed THEN scheduleReconnect(w1) ELSE w1

\* ws.onclose (lines 154-161).
onclose(w) ==
    LET w1 == Emit(stopHeartbeat(SetState(w, "closed")),
                   Fx("cb", "", "onClose", 0))
    IN  IF ~w1.explicitlyClosed THEN scheduleReconnect(w1) ELSE w1

\* ws.onerror (lines 163-165).
onerror(w) == Emit(w, Fx("cb", "", "onError", 0))

\* --------------------------------------------------- updateSessionContext()
\* updateSessionContext as it would be if line 70 looked at modeChanged
\* alone: the variant C9 is checked against.
updateSessionContext_ModeOnly(w, options) ==
    LET modeChanged == w.isAssistantMode # options.isAssistantMode
        w1 == [w EXCEPT !.url = options.url,
                        !.sessionId = options.sessionId,
                        !.isAssistantMode = options.isAssistantMode]
    IN  IF w1.ws # NULL /\ w1.state = "open"
           /\ modeChanged
        THEN close(w1)
        ELSE w1

\* updateSessionContext as it would be if it cleared explicitlyClosed when it
\* leaves the connection alone: the variant C35 is checked against.
updateSessionContext_ClearsFlag(w, options) ==
    LET urlChanged == w.url # options.url
        sessionChanged == w.sessionId # options.sessionId
        modeChanged == w.isAssistantMode # options.isAssistantMode
        w1 == [w EXCEPT !.url = options.url,
                        !.sessionId = options.sessionId,
                        !.isAssistantMode = options.isAssistantMode]
    IN  IF w1.ws # NULL /\ w1.state = "open"
           /\ (urlChanged \/ sessionChanged \/ modeChanged)
        THEN close(w1)
        ELSE [w1 EXCEPT !.explicitlyClosed = FALSE]

updateSessionContext(w, options) ==
    LET urlChanged == w.url # options.url
        sessionChanged == w.sessionId # options.sessionId
        modeChanged == w.isAssistantMode # options.isAssistantMode
        w1 == [w EXCEPT !.url = options.url,
                        !.sessionId = options.sessionId,
                        !.isAssistantMode = options.isAssistantMode]
    IN  IF w1.ws # NULL /\ w1.state = "open"
           /\ (urlChanged \/ sessionChanged \/ modeChanged)
        THEN close(w1)
        ELSE w1

\* ------------------------------------------------------------ the heartbeat
\* The interval callback (lines 243-249).
heartbeat(w, fail) ==
    IF w.ws # NULL /\ IsOpen(w)
    THEN SockSend(w, Control(PingFrame), fail)
    ELSE w

\* The reconnect timer's callback (lines 271-274).
reconnectFire(w, ok) ==
    connect([w EXCEPT !.reconnectTimer = FALSE, !.reconnectTimeouts = @ - 1],
            ok)

\* ================================================================== actions
\* An operation: its name; who: the socket an event came from (Cur, Orphan);
\* k: the frame kind, or the readyState the socket had; c: the call.
Op(name, who, k, c) == [name |-> name, who |-> who, k |-> k, c |-> c]

\* Between two tasks of the event loop: no operation is running and the record
\* of the last one has been dropped.
NoOp == Op("", "", "", 0)
Ready == op = NoOp

Init ==
    /\ ws = NULL
    /\ url = NULL
    /\ sessionId = NULL
    /\ isAssistantMode = FALSE
    /\ state = "idle"
    /\ heartbeatTimer = FALSE
    /\ reconnectTimer = FALSE
    /\ reconnectAttempts = 0
    /\ explicitlyClosed = FALSE
    /\ sendQueue = <<>>
    /\ authorized = FALSE
    /\ awaitingAuthResolve = 0
    /\ connectedUrl = NULL
    /\ connectedSessionId = NULL
    /\ orphans = [r \in LiveStates |-> 0]
    /\ calls = [c \in CallIds |-> [status |-> "none", timer |-> FALSE]]
    /\ authCb = 0
    /\ sinceClose = FALSE
    /\ scheduled = 0
    /\ reconnectTimeouts = 0
    /\ op = NoOp
    /\ fx = <<>>

\* The inputs of a step that can make a difference to it: whether a ws.send
\* can throw is asked only where the handler reaches one, whether
\* new WebSocket() throws only where it reaches the constructor.
DirectPath(w) == w.ws # NULL /\ IsOpen(w) /\ w.authorized
SendFails(w) == IF DirectPath(w) THEN BOOLEAN ELSE {FALSE}
\* connect() reaches new WebSocket() (lines 76-98).
ReachesCtor(w) ==
    /\ w.url # NULL /\ w.sessionId # NULL
    /\ IF w.ws # NULL /\ w.state = "open" /\ IsOpen(w)
       THEN ~(w.connectedUrl = w.url /\ w.connectedSessionId = w.sessionId)
       ELSE w.state # "connecting"
CtorInputs(w) == IF ReachesCtor(w) THEN BOOLEAN ELSE {TRUE}
SendCtorInputs(w) == IF DirectPath(w) THEN {TRUE} ELSE CtorInputs(w)
\* What Math.random() comes to matters where a reconnect can be scheduled.
JitterInputs(w) ==
    IF w.url # NULL /\ w.sessionId # NULL THEN Jitters ELSE {0}
Draw(w, j) == [w EXCEPT !.jitter = j]
FlushFails(w, kind) ==
    IF /\ kind \in BusinessTypes \cup {"auth_success"}
       /\ ~w.authorized
       /\ w.ws # NULL /\ IsOpen(w)
    THEN 0..Len(w.sendQueue) ELSE {0}

\* The caller's operations.
UpdateSessionContext ==
    /\ Ready
    /\ \E options \in Contexts :
           Commit(updateSessionContext(World, options),
                  Op("updateSessionContext", "", "", 0))

\* updateSessionContext with the endpoint or the session left empty.
ClearSessionContext ==
    /\ Ready
    /\ \E options \in EmptyContexts :
           Commit(updateSessionContext(World, options),
                  Op("updateSessionContext", "", "empty", 0))

ConnectUpTo(cap) ==
    /\ Ready
    /\ \E ok \in CtorInputs(World) :
           \E j \in (IF ok THEN {0} ELSE JitterInputs(World)) :
               CommitUpTo(connect(Draw(World, j), ok),
                          Op("connect", "", "", 0), cap)

Connect == ConnectUpTo(MaxAttempts)

\* The manager is as a close() leaves it (lines 173-183).
IsClosed(w) ==
    /\ w.explicitlyClosed
    /\ ~w.heartbeatTimer
    /\ w.ws = NULL
    /\ w.state = "closed"
    /\ ~w.reconnectTimer
    /\ w.sendQueue = <<>>
    /\ ~w.authorized

\* k tells a close() of a manager that is already as close() leaves it.
CloseUpTo(cap) ==
    /\ Ready
    /\ CommitUpTo(close(World),
                  Op("close", "", IF IsClosed(World) THEN "again" ELSE "", 0),
                  cap)

Close == CloseUpTo(MaxAttempts)

SendUpTo(cap) ==
    /\ Ready
    /\ NextPayload(sendQueue) <= cap
    /\ \E fail \in SendFails(World), ok \in SendCtorInputs(World) :
           \E j \in (IF ok THEN {0} ELSE JitterInputs(World)) :
               Commit(send(Draw(World, j), fail, ok), Op("send", "", "", 0))

Send == SendUpTo(MaxSends)

EnsureAuthorized ==
    /\ Ready
    /\ \E c \in DOMAIN calls :
           /\ calls[c].status = "none" /\ ~calls[c].timer
           /\ \A d \in DOMAIN calls : d < c => calls[d].status # "none"
           /\ \E ok \in (IF ws # NULL /\ IsOpen(World) THEN {TRUE}
                         ELSE CtorInputs(World)) :
                  \E j \in (IF ok THEN {0} ELSE JitterInputs(World)) :
                      Commit(ensureAuthorized(Draw(World, j), c, ok),
                             Op("ensureAuthorized", "", "", c))

\* The transport's events.  An event comes from the socket this.ws refers to
\* or from an orphan; Take is the state with that socket moved from readyState
\* from to readyState to (dropped when to is "CLOSED" and it is an orphan).
Sources == {Cur, Orphan}

Has(who, from) == IF who = Cur THEN ws = from ELSE orphans[from] > 0

Take(who, from, to) ==
    IF who = Cur THEN [World EXCEPT !.ws = to]
    ELSE IF to = "CLOSED" THEN [World EXCEPT !.orphans[from] = @ - 1]
    ELSE [World EXCEPT !.orphans[from] = @ - 1, !.orphans[to] = @ + 1]

WsOpen ==
    /\ Ready
    /\ \E who \in Sources :
           /\ Has(who, "CONNECTING")
           /\ LET w == [Take(who, "CONNECTING", "OPEN") EXCEPT !.scheduled = 0]
                  wo == [w EXCEPT !.state = "open"]
              IN  \E hasToken \in BOOLEAN,
                     cbSend \in {b \in BOOLEAN :
                                   b => NextPayload(sendQueue) <= MaxSends} :
                      \E fail \in (IF cbSend THEN SendFails(wo) ELSE {FALSE}),
                         ok \in (IF cbSend THEN SendCtorInputs(wo) ELSE {TRUE}),
                         failAuth \in (IF hasToken THEN BOOLEAN ELSE {FALSE}) :
                          \E j \in (IF ok THEN {0} ELSE JitterInputs(wo)) :
                              Commit(onopen(Draw(w, j), hasToken, cbSend,
                                            fail, ok, failAuth),
                                     Op("onopen", who,
                                        IF hasToken THEN "token" ELSE "", 0))

WsMessage ==
    /\ Ready
    /\ \E who \in Sources, kind \in FrameKinds :
           /\ Has(who, "OPEN")
           /\ \E failAt \in FlushFails(World, kind) :
                  Commit(onmessage(World, kind, failAt),
                         Op("onmessage", who, kind, 0))

\* A message event when the caller registered an onAuthSuccess that may throw.
WsMessageCb ==
    /\ Ready
    /\ \E who \in Sources, kind \in FrameKinds :
           /\ Has(who, "OPEN")
           /\ \E failAt \in FlushFails(World, kind),
                 cbThrows \in (IF kind \in {"auth_success"} \cup BusinessTypes
                                  /\ ~authorized
                               THEN BOOLEAN ELSE {FALSE}) :
                  Commit(onmessageCb(World, kind, failAt, cbThrows),
                         Op("onmessage", who, kind, 0))

\* The close event, after an error event when the connection failed.
WsCloseUpTo(cap) ==
    /\ Ready
    /\ \E who \in Sources, from \in LiveStates, withError \in BOOLEAN :
           /\ Has(who, from)
           /\ \E j \in (IF explicitlyClosed \/ reconnectTimer THEN {0}
                         ELSE JitterInputs(World)) :
                  LET w == Draw(Take(who, from, "CLOSED"), j)
                  IN  CommitUpTo(onclose(IF withError THEN onerror(w) ELSE w),
                                 Op("onclose", who, from, 0), cap)

WsClose == WsCloseUpTo(MaxAttempts)

\* The timers.
HeartbeatTick ==
    /\ Ready
    /\ heartbeatTimer
    /\ \E fail \in (IF ws # NULL /\ IsOpen(World) THEN BOOLEAN ELSE {FALSE}) :
           Commit(heartbeat(World, fail), Op("heartbeat", "", "", 0))

ReconnectFireUpTo(cap) ==
    /\ Ready
    /\ reconnectTimeouts > 0
    /\ \E ok \in CtorInputs(World) :
           \E j \in (IF ok THEN {0} ELSE JitterInputs(World)) :
               CommitUpTo(reconnectFire(Draw(World, j), ok),
                          Op("reconnectFire", "", "", 0), cap)

ReconnectFire == ReconnectFireUpTo(MaxAttempts)

EnsureTimeoutOf(c) ==
    /\ Ready
    /\ calls[c].timer
    /\ Commit(TimeoutBody(World, c), Op("ensureTimeout", "", "", c))

EnsureTimeout == \E c \in DOMAIN calls : EnsureTimeoutOf(c)

\* The task ends: control returns to the event loop.
Settle ==
    /\ ~Ready
    /\ op' = NoOp
    /\ fx' = <<>>
    /\ UNCHANGED << mgrVars, orphans, calls, authCb, sinceClose, scheduled,
                    reconnectTimeouts >>

Next ==
    \/ UpdateSessionContext
    \/ Connect
    \/ Close
    \/ Send
    \/ EnsureAuthorized
    \/ WsOpen
    \/ WsMessage
    \/ WsClose
    \/ HeartbeatTick
    \/ ReconnectFire
    \/ EnsureTimeout
    \/ Settle

Spec == Init /\ [][Next]_vars

\* A second specification for the queue's capacity: the caller only sends and
\* closes, with no session context set, so that every payload is enqueued and
\* none is flushed, for more than MAX_QUEUE sends.
QueueSend == SendUpTo(MaxEnq)

NextQueue ==
    \/ QueueSend
    \/ Close
    \/ Settle

SpecQueue == Init /\ [][NextQueue]_vars

\* Connection attempts alone, as many in a row without an open as it takes for
\* the exponent clamp to act.
BackoffConnect == ConnectUpTo(MaxBackoff)
BackoffClose == WsCloseUpTo(MaxBackoff)
BackoffFire == ReconnectFireUpTo(MaxBackoff)

NextBackoff ==
    \/ UpdateSessionContext
    \/ BackoffConnect
    \/ BackoffClose
    \/ BackoffFire
    \/ WsOpen
    \/ Settle

SpecBackoff == Init /\ [][NextBackoff]_vars

\* The connection's life with the scheduling the event loop gives: a handler
\* that has been entered returns, and a timeout that stays set gets its turn
\* between the other events.
RetryClose == CloseUpTo(MaxBackoff)

NextRetry ==
    \/ NextBackoff
    \/ RetryClose

SpecRetry ==
    /\ Init
    /\ [][NextRetry]_vars
    /\ WF_vars(Settle)
    /\ SF_vars(BackoffFire)

\* Sending over one connection, with the scheduling the event loop gives: a
\* handler that has been entered returns, and the frames the server sends
\* keep arriving.
NextDeliver ==
    \/ UpdateSessionContext
    \/ Connect
    \/ WsOpen
    \/ WsMessage
    \/ Send
    \/ Settle

SpecDeliver ==
    /\ Init
    /\ [][NextDeliver]_vars
    /\ WF_vars(Settle)
    /\ SF_vars(WsMessage)

\* The connection's life, close() included, with as many failures in a row as
\* it takes for the attempt counter to reach its clamp.
SpecAttempts == Init /\ [][NextRetry]_vars

\* The manager under a caller whose onAuthSuccess handler may throw (the
\* handlers are caller-supplied, setCallbacks of lines 52-54); in the other
\* specifications the handlers are the ones Login.tsx registers, which do not.
NextCallbacks ==
    \/ UpdateSessionContext
    \/ Connect
    \/ Send
    \/ EnsureAuthorized
    \/ WsOpen
    \/ WsMessageCb
    \/ EnsureTimeout
    \/ Settle

SpecCallbacks == Init /\ [][NextCallbacks]_vars

\* The manager under a caller that may also leave the endpoint or the session
\* of the context empty.
NextNoContext ==
    \/ UpdateSessionContext
    \/ ClearSessionContext
    \/ Connect
    \/ Send
    \/ EnsureAuthorized
    \/ WsOpen
    \/ WsClose
    \/ ReconnectFire
    \/ EnsureTimeout
    \/ Settle

SpecNoContext == Init /\ [][NextNoContext]_vars

\* Callers that do not wait for one ensureAuthorized call to return before
\* making the next (the send handler of Login.tsx, 2764-2791, awaits the call
\* and can be entered again meanwhile), with the scheduling the event loop
\* gives: a handler that has been entered returns, and the timeout of a call
\* fires unless it is cleared (it gets its turn between the other tasks, so
\* the fairness is strong).  The reconnects are those that follow a failed
\* construction.
WaiterIds == 1..MaxWaiters

InitWaiters ==
    /\ ws = NULL
    /\ url = NULL
    /\ sessionId = NULL
    /\ isAssistantMode = FALSE
    /\ state = "idle"
    /\ heartbeatTimer = FALSE
    /\ reconnectTimer = FALSE
    /\ reconnectAttempts = 0
    /\ explicitlyClosed = FALSE
    /\ sendQueue = <<>>
    /\ authorized = FALSE
    /\ awaitingAuthResolve = 0
    /\ connectedUrl = NULL
    /\ connectedSessionId = NULL
    /\ orphans = [r \in LiveStates |-> 0]
    /\ calls = [c \in WaiterIds |-> [status |-> "none", timer |-> FALSE]]
    /\ authCb = 0
    /\ sinceClose = FALSE
    /\ scheduled = 0
    /\ reconnectTimeouts = 0
    /\ op = NoOp
    /\ fx = <<>>

NextWaiters ==
    \/ UpdateSessionContext
    \/ EnsureAuthorized
    \/ Close
    \/ WsOpen
    \/ WsMessage
    \/ ReconnectFire
    \/ EnsureTimeout
    \/ Settle

SpecWaiters ==
    /\ InitWaiters
    /\ [][NextWaiters]_vars
    /\ WF_vars(Settle)
    /\ \A c \in WaiterIds : SF_vars(EnsureTimeoutOf(c))

\* ============================================================= what a step did
\* The effects of kind e in f.
FxCount(f, e) == Cardinality({i \in DOMAIN f : f[i].e = e})
FxHas(f, e) == \E i \in DOMAIN f : f[i].e = e

\* The invocations of callback k in f.
CbCount(f, k) == Cardinality({i \in DOMAIN f : f[i].e = "cb" /\ f[i].k = k})

\* The frames of kind k handed to the transport in f that it took.
TxCount(f, k) == Cardinality({i \in DOMAIN f : f[i].e = "tx" /\ f[i].k = k})

\* The payloads transmitted in f, in order.
RECURSIVE TxData(_)
TxData(f) ==
    IF f = <<>> THEN <<>>
    ELSE IF Head(f).e = "tx" /\ Head(f).k = "data"
         THEN <<Head(f).n>> \o TxData(Tail(f))
         ELSE TxData(Tail(f))

\* The payloads handed to ws.send in f, whether it took them or threw.
DataTried(f) ==
    Cardinality({i \in DOMAIN f : f[i].e \in {"tx", "txthrow"}
                                  /\ f[i].k = "data"})

\* A ws.send threw in f.
SendThrew(f) == FxHas(f, "txthrow")

\* this.state at the moment effect i of f happened, s0 being this.state
\* before the step.
StateAt(f, i, s0) ==
    LET before == {j \in 1..(i - 1) : f[j].e = "state"}
    IN  IF before = {} THEN s0
        ELSE f[CHOOSE j \in before : \A l \in before : l <= j].k

\* Call c was resolved with v in f.
Resolved(f, c, v) ==
    Cardinality({i \in DOMAIN f : f[i].e = "resolve" /\ f[i].n = c}) = 1
    /\ \E i \in DOMAIN f : f[i].e = "resolve" /\ f[i].n = c /\ f[i].k = v

ContextSet == url # NULL /\ sessionId # NULL
SameTarget == connectedUrl = url /\ connectedSessionId = sessionId

\* An inbound frame that authorizes: auth_success, or a business frame
\* arriving while this.authorized is false.
Authorizing(o, wasAuthorized) ==
    /\ o.name = "onmessage"
    /\ \/ o.k = "auth_success"
       \/ o.k \in BusinessTypes /\ ~wasAuthorized

\* ===================================================================== claims

\* C1 (as claimed): when a flush runs over q1..qn and the k-th ws.send throws,
\* q1..q(k-1) have been transmitted in that order and the queue afterwards is
\* qk..qn: the payload whose send failed is still queued.
C1_FailedItemStaysQueued ==
    [][ (op'.name = "onmessage" /\ SendThrew(fx'))
        => /\ TxData(fx') = SubSeq(sendQueue, 1, DataTried(fx') - 1)
           /\ sendQueue' = SubSeq(sendQueue, DataTried(fx'), Len(sendQueue))
      ]_vars

\* C2: a connect() call made while this.state is "connecting" (directly, or
\* from send, ensureAuthorized, the reconnect timer or a callback) constructs
\* no transport, and a transport is constructed only by the connect() that
\* has just set this.state to "connecting": one transport per Connecting
\* episode.
C2_IdempotentConnect ==
    [][ /\ \A i \in DOMAIN fx' :
              (fx'[i].e = "connect" /\ StateAt(fx', i, state) = "connecting")
              => \A j \in DOMAIN fx' : j > i => fx'[j].e # "new"
        /\ \A j \in DOMAIN fx' :
              fx'[j].e = "new"
              => j > 1 /\ fx'[j - 1] = Fx("state", "", "connecting", 0)
        /\ FxCount(fx', "new") <= 1
      ]_vars

\* connect() was called in state Connecting and returned at once.
C2_Witness ==
    /\ op.name \in {"connect", "send", "ensureAuthorized", "reconnectFire"}
    /\ state = "connecting"
    /\ FxHas(fx, "connect")
    /\ ~FxHas(fx, "state")
    /\ ~FxHas(fx, "new")

\* C3: after close() has returned and until connect() is called again, a close
\* event of any transport (the one close() tore down included) schedules no
\* reconnect and constructs no transport.
C3_CloseSuppressesRetry ==
    [][ (sinceClose /\ op'.name = "onclose")
        => /\ ~FxHas(fx', "schedule")
           /\ ~FxHas(fx', "new")
           /\ ~reconnectTimer'
      ]_vars

\* The close event of the transport close() tore down, with a context set.
C3_Witness ==
    /\ op.name = "onclose"
    /\ op.k = "CLOSING"
    /\ sinceClose
    /\ ContextSet
    /\ ~reconnectTimer

\* C4: the send-before-connect scenario, step by step, with the transport
\* behaving (the constructor returns, no ws.send throws, a token is stored)
\* and the context left as it is: send(p) with a context, no transport and an
\* empty queue leaves the queue [p] and the state Connecting; when that
\* transport opens the authorization frame is written to it and what was
\* queued is still queued; an auth_success frame on it, received while
\* unauthorized, transmits the whole queue in order and leaves it empty.
C4_SendBeforeConnect ==
    [][ /\ ( /\ op'.name = "send"
             /\ ws = NULL /\ ContextSet /\ sendQueue = <<>>
             /\ ~FxHas(fx', "newthrow") )
           => /\ sendQueue' = <<1>>
              /\ fx'[1] = Fx("send", "", "", 1)
              /\ state' = "connecting"
              /\ ws' = "CONNECTING"
              /\ FxCount(fx', "new") = 1
        /\ ( /\ op'.name = "onopen" /\ op'.who = Cur /\ op'.k = "token"
             /\ SameTarget
             /\ ~SendThrew(fx') )
           => /\ TxCount(fx', AuthFrame) = 1
              /\ SubSeq(sendQueue', 1, Len(sendQueue)) = sendQueue
              /\ Len(sendQueue') >= Len(sendQueue)
        /\ ( /\ op'.name = "onmessage" /\ op'.who = Cur
             /\ op'.k = "auth_success"
             /\ ~authorized
             /\ ~SendThrew(fx') )
           => /\ TxData(fx') = sendQueue
              /\ sendQueue' = <<>>
      ]_vars

\* The end of the scenario: auth_success has flushed payload 1, submitted
\* before any transport existed.
C4_Witness ==
    /\ op.name = "onmessage"
    /\ op.k = "auth_success"
    /\ TxData(fx) = <<1>>
    /\ sendQueue = <<>>

\* C5: the queue never holds more than MAX_QUEUE payloads; an enqueue onto a
\* full queue drops exactly the oldest one and appends the new one last; so
\* with no flush the queue is the last min(N, MAX_QUEUE) payloads submitted,
\* in the order submitted.
C5_QueueBound ==
    /\ [](Len(sendQueue) <= MAX_QUEUE)
    /\ [](\A i \in DOMAIN sendQueue :
             sendQueue[i] = NextPayload(sendQueue) - Len(sendQueue) + i - 1)
    /\ [][ op'.name = "send"
           => sendQueue' = IF Len(sendQueue) >= MAX_QUEUE
                           THEN Append(Tail(sendQueue),
                                       NextPayload(sendQueue))
                           ELSE Append(sendQueue, NextPayload(sendQueue))
         ]_vars

\* MAX_QUEUE + 2 payloads were enqueued with no flush: the first two are gone.
C5_Witness ==
    /\ Len(sendQueue) = MAX_QUEUE
    /\ sendQueue[1] = 3
    /\ sendQueue[MAX_QUEUE] = MAX_QUEUE + 2

\* C6: between one connection attempt (or close()) and the next, onAuthSuccess
\* is invoked at most once whatever frames arrive; an auth_success frame
\* invokes it once when this.authorized was false and not at all when it was
\* true.
C6_SingleAuthorization ==
    /\ [](authCb <= 1)
    /\ [][ (op'.name = "onmessage" /\ op'.k = "auth_success")
           => CbCount(fx', "onAuthSuccess") = (IF authorized THEN 0 ELSE 1)
         ]_vars

\* A second auth_success frame in the same attempt: no second invocation.
C6_Witness ==
    /\ op.name = "onmessage"
    /\ op.k = "auth_success"
    /\ authCb = 1
    /\ CbCount(fx, "onAuthSuccess") = 0

\* C7: a history, message, reference, audio or done frame arriving while
\* this.authorized is false sets it, flushes the queue (the flush runs when
\* the manager's transport is open: the payloads are handed to ws.send in
\* order, all of them and the queue left empty when no send throws; it leaves
\* the queue alone otherwise), invokes onAuthSuccess once, resolves the
\* pending waiter with true and empties the slot, and is forwarded to
\* onMessage; arriving while this.authorized is true it is forwarded and
\* nothing else happens.
C7_ImplicitAuthorization ==
    [][ (op'.name = "onmessage" /\ op'.k \in BusinessTypes)
        => IF ~authorized
           THEN /\ authorized'
                /\ CbCount(fx', "onAuthSuccess") = 1
                /\ awaitingAuthResolve' = 0
                /\ awaitingAuthResolve # 0
                   => /\ calls[awaitingAuthResolve].status = "pending"
                      /\ Resolved(fx', awaitingAuthResolve, "true")
                      /\ calls'[awaitingAuthResolve].status # "pending"
                /\ ws = "OPEN"
                   => /\ DataTried(fx') >= Len(TxData(fx'))
                      /\ TxData(fx') = SubSeq(sendQueue, 1, Len(TxData(fx')))
                      /\ ~SendThrew(fx') => /\ TxData(fx') = sendQueue
                                            /\ sendQueue' = <<>>
                /\ ws # "OPEN"
                   => /\ DataTried(fx') = 0
                      /\ sendQueue' = sendQueue
                /\ fx'[Len(fx')] = Fx("onMessage", "", op'.k, 0)
                /\ FxCount(fx', "onMessage") = 1
           ELSE /\ fx' = << Fx("onMessage", "", op'.k, 0) >>
                /\ UNCHANGED << mgrVars, orphans, calls >>
      ]_vars

\* A history frame authorized: it flushed payload 1, released the waiter and
\* was forwarded.
C7_Witness ==
    /\ op.name = "onmessage"
    /\ op.k = "history"
    /\ CbCount(fx, "onAuthSuccess") = 1
    /\ TxData(fx) = <<1>>
    /\ Resolved(fx, 1, "true")
    /\ FxHas(fx, "onMessage")

\* C8: connect() called while the state is Open, the transport is open and
\* the recorded target equals the session context changes nothing: no
\* transport is constructed or closed, no callback runs, and every field of
\* the manager (state, authorized, queue, explicitlyClosed, timers) is as it
\* was.
C8_TargetReuse ==
    [][ ( /\ op'.name = "connect"
          /\ state = "open" /\ ws = "OPEN" /\ SameTarget )
        => /\ UNCHANGED << mgrVars, orphans, calls >>
           /\ fx' = << Fx("connect", "", "", 0) >>
      ]_vars

\* connect() was called on an open, authorized connection to the same target.
C8_Witness ==
    /\ op.name = "connect"
    /\ state = "open" /\ ws = "OPEN" /\ SameTarget
    /\ authorized
    /\ fx = << Fx("connect", "", "", 0) >>

C10_EnsureAuthorizedTimeout ==
    [][ /\ op'.name = "ensureTimeout"
           => /\ calls[op'.c].status = "pending"
              /\ Resolved(fx', op'.c, "false")
              /\ awaitingAuthResolve' = 0
        /\ \A c \in CallIds :
              /\ (calls[c].timer /\ ~calls'[c].timer)
                 => \/ op'.name = "ensureTimeout" /\ op'.c = c
                    \/ Authorizing(op', authorized)
              /\ (\E i \in DOMAIN fx' : fx'[i].e = "resolve" /\ fx'[i].n = c)
                 => /\ \/ calls[c].status = "pending"
                       \/ op'.name = "ensureAuthorized" /\ op'.c = c
                    /\ Cardinality({i \in DOMAIN fx' :
                           fx'[i].e = "resolve" /\ fx'[i].n = c}) = 1
                    /\ calls'[c].status # "pending"
                    /\ ~calls'[c].timer
      ]_vars

\* The timer of call 1 fired while it was waiting in the slot: it resolved
\* false and the slot is empty.
C10_Witness ==
    /\ op.name = "ensureTimeout"
    /\ op.c = 1
    /\ Resolved(fx, 1, "false")
    /\ calls[1].status = "none"
    /\ awaitingAuthResolve = 0
    /\ ws = "OPEN"

\* C11: the n-th reconnect scheduled with no open in between (n = 1, 2, ...)
\* is set to fire after min(1000 * 2^(min(n,10)-1), 15000) ms plus a jitter of
\* [0, 300) ms: 1000 ms for the first, non-decreasing in n, never more than
\* 15000 ms, so every delay lies in [1000, 15300) ms.
C11_BackoffGrowthAndCap ==
    [][ \A i \in DOMAIN fx' :
          fx'[i].e = "setTimeout"
          => LET n == scheduled'
                 Base(k) == Min(1000 * Pow2(Min(k, 10) - 1), 15000)
                 delay == fx'[i].n
             IN  /\ n >= 1
                 /\ delay - Base(n) \in 0..299
                 /\ delay >= 1000 /\ delay < 15300
                 /\ n = 1 => Base(n) = 1000
                 /\ \A k \in 1..n : Base(k) <= Base(n) /\ Base(k) <= 15000
      ]_vars

\* The eleventh reconnect in a row with no open in between, past the exponent
\* clamp, set to fire after the capped delay and the largest jitter.
C11_Witness ==
    /\ scheduled = MAX_ATTEMPT + 1
    /\ reconnectAttempts = MAX_ATTEMPT
    /\ \E i \in DOMAIN fx : fx[i].e = "setTimeout" /\ fx[i].n = 15299

\* C12 (as claimed): payloads reach the transport in the order of the send()
\* calls: what a step transmits is in submission order, and no payload is
\* transmitted while one submitted before it is still queued.
C12_NoReordering ==
    [][ LET sent == TxData(fx')
        IN  /\ \A i, j \in DOMAIN sent : i < j => sent[i] < sent[j]
            /\ \A i \in DOMAIN sent :
                   \A j \in DOMAIN sendQueue' : sent[i] < sendQueue'[j]
      ]_vars

\* C13 (as claimed): when send(p) returns, p has been handed to the transport
\* or is in the queue, also when the direct ws.send throws and when the
\* connect() that send makes runs.
C13_SendNeverDrops ==
    [][ \A i \in DOMAIN fx' :
          fx'[i].e = "send"
          => \/ \E j \in DOMAIN TxData(fx') : TxData(fx')[j] = fx'[i].n
             \/ \E j \in DOMAIN sendQueue' : sendQueue'[j] = fx'[i].n
      ]_vars

\* C14: a payload submitted through send() is written to a transport only
\* while that transport is open and this.authorized is true; while
\* this.authorized is false the only frames written are the authorization
\* frame and heartbeat pings.
C14_OutboundGating ==
    [][ \A i \in DOMAIN fx' :
          fx'[i].e \in {"tx", "txthrow", "txdrop"}
          => /\ fx'[i].k = "data" => fx'[i].auth /\ fx'[i].rs = "OPEN"
             /\ ~fx'[i].auth => fx'[i].k \in {AuthFrame, PingFrame}
      ]_vars

\* A payload queued while this.authorized was false is written to the open
\* transport by the frame that authorizes, after the flag has been set.
C14_Witness ==
    /\ op.name = "onmessage"
    /\ op.k = "auth_success"
    /\ TxData(fx) = <<1>>
    /\ \A i \in DOMAIN fx : fx[i].e = "tx" => fx[i].auth /\ fx[i].rs = "OPEN"

\* C15: when close() returns, called by the application or by
\* updateSessionContext, this.state is "closed", this.ws is null, the queue is
\* empty, this.authorized is false, this.explicitlyClosed is true and neither
\* the heartbeat timer nor the reconnect timer is pending.
C15_ClosePostcondition ==
    [][ (op'.name \in {"close", "updateSessionContext"} /\ FxHas(fx', "close"))
        => /\ state' = "closed"
           /\ ws' = NULL
           /\ sendQueue' = <<>>
           /\ ~authorized'
           /\ explicitlyClosed'
           /\ ~heartbeatTimer'
           /\ ~reconnectTimer'
      ]_vars

\* close() has just closed a transport, the manager's second with the first
\* still closing, and left the postcondition.
C15_Witness ==
    /\ op.name = "close"
    /\ FxHas(fx, "wsclose")
    /\ orphans["CLOSING"] = 2
    /\ ws = NULL /\ state = "closed" /\ sendQueue = <<>>
    /\ explicitlyClosed /\ ~heartbeatTimer /\ ~reconnectTimer /\ ~authorized

\* C16: a close() of a manager that is as a close() has left it changes no
\* field of the manager (state, transport, queue, flags, timers), closes no
\* transport and invokes no callback.
C16_CloseIdempotent ==
    [][ (op'.name = "close" /\ IsClosed(World))
        => /\ UNCHANGED mgrVars
           /\ orphans' = orphans
           /\ \A i \in DOMAIN fx' :
                  fx'[i].e \notin {"wsclose", "cb", "onMessage", "resolve"}
      ]_vars

\* The second close(): the first closed a transport, which is still closing.
C16_Witness ==
    /\ op.name = "close"
    /\ op.k = "again"
    /\ orphans["CLOSING"] >= 1
    /\ IsClosed(World)

\* C17: whenever a transport nobody has closed closes, or new WebSocket()
\* throws, while url and sessionId are set and this.explicitlyClosed is false,
\* the reconnect timer is
\* pending afterwards, and if the timer gets its turn a new transport is
\* constructed (or its construction attempted) later on, unless close() is
\* called first; this holds after every failure.
C17_RetryUntilClosed ==
    LET Failed == \/ /\ op.name = "onclose"
                     /\ op.k # "CLOSING"
                     /\ ~explicitlyClosed
                     /\ url # NULL /\ sessionId # NULL
                  \/ FxHas(fx, "newthrow")
        Attempt == FxHas(fx, "new") \/ FxHas(fx, "newthrow")
        Closed == FxHas(fx, "close")
    IN  /\ [](Failed => reconnectTimer)
        /\ Failed ~> (Ready /\ <>(Attempt \/ Closed))

\* C18 (as claimed): whenever this.state is "open", the target the current
\* transport was constructed for (connectedUrl, connectedSessionId) is the
\* url and sessionId of the session context, whatever the interleaving of
\* updateSessionContext, connect and the transport's open events.
C18_NoStaleTarget ==
    (state = "open" /\ ws # NULL)
    => (connectedUrl = url /\ connectedSessionId = sessionId)

\* C19: an auth_success or pong frame is not passed to onMessage; every other
\* frame (any other type, a business type whether this.authorized is set or
\* not, a payload that is not JSON) is passed to onMessage exactly once, as it
\* came, by the handler of its own message event, so in arrival order; and
\* nothing but a message event invokes onMessage.  The callbacks are the ones
\* the application registers, which return normally.
C19_InboundForwarding ==
    [][ LET fwd == {i \in DOMAIN fx' : fx'[i].e = "onMessage"}
        IN  IF op'.name = "onmessage" /\ op'.k \notin {"auth_success", "pong"}
            THEN /\ Cardinality(fwd) = 1
                 /\ \A i \in fwd : fx'[i].k = op'.k /\ i = Len(fx')
            ELSE fwd = {}
      ]_vars

\* A frame of a type the gate does not know, from the manager's transport
\* while unauthorized: forwarded, and nothing else done.
C19_Witness ==
    /\ op.name = "onmessage"
    /\ op.k = "error"
    /\ op.who = Cur
    /\ ~authorized
    /\ fx = << Fx("onMessage", "", "error", 0) >>

\* C20: a frame whose payload is not JSON changes no field of the manager
\* (authorized, queue, waiter, state, timers), invokes no onAuthSuccess,
\* writes nothing to the transport, and is forwarded to onMessage.
C20_MalformedPayload ==
    [][ (op'.name = "onmessage" /\ op'.k = "nonjson")
        => /\ UNCHANGED << mgrVars, orphans, calls, authCb >>
           /\ fx' = << Fx("onMessage", "", "nonjson", 0) >>
      ]_vars

\* A payload that is not JSON arrives while a payload is queued and a caller
\* waits for the authorization: both are left as they are.
C20_Witness ==
    /\ op.name = "onmessage"
    /\ op.k = "nonjson"
    /\ sendQueue # <<>>
    /\ awaitingAuthResolve # 0
    /\ ~authorized
    /\ ws = "OPEN"
    /\ fx = << Fx("onMessage", "", "nonjson", 0) >>

\* C21: the close event of the manager's transport, the reconnect timer's
\* firing on the closed transport and the open event of the transport that
\* firing constructed (the context being the one it was constructed for)
\* remove nothing from the queue and leave its order: the first two leave the
\* queue as it is, the third at most appends what the onOpen callback sends.
\* In any step, entries leave the queue only by a flush, by the eviction of
\* the oldest entry from a full queue, or by close().
C21_QueueSurvivesDrop ==
    [][ /\ (op'.name = "onclose" /\ op'.who = Cur)
           => sendQueue' = sendQueue
        /\ (op'.name = "reconnectFire" /\ ws \notin LiveStates)
           => sendQueue' = sendQueue
        /\ (op'.name = "onopen" /\ op'.who = Cur /\ SameTarget)
           => /\ Len(sendQueue') >= Len(sendQueue)
              /\ SubSeq(sendQueue', 1, Len(sendQueue)) = sendQueue
        /\ (\E i \in DOMAIN sendQueue :
                \A j \in DOMAIN sendQueue' : sendQueue'[j] # sendQueue[i])
           => \/ DataTried(fx') > 0
              \/ FxHas(fx', "close")
              \/ FxHas(fx', "send") /\ Len(sendQueue) >= MAX_QUEUE
      ]_vars

\* The reconnect timer has fired after the transport dropped and a new
\* transport is being constructed, with the two payloads still queued.
C21_Witness ==
    /\ op.name = "reconnectFire"
    /\ FxHas(fx, "new")
    /\ sendQueue = <<1, 2>>
    /\ orphans["CONNECTING"] + orphans["OPEN"] + orphans["CLOSING"] = 0

\* C22 (as claimed): a payload in the queue is transmitted in the end if from
\* then on the transport stays open and this.authorized stays true, no ws.send
\* throws and close() is not called: the queue does not stay non-empty for
\* ever under these conditions.
C22_EventualDelivery ==
    []<>(\/ sendQueue = <<>>
         \/ ~(ws = "OPEN" /\ state = "open" /\ authorized)
         \/ SendThrew(fx)
         \/ FxHas(fx, "close"))

\* C23: an ensureAuthorized call made while the transport is open and
\* this.authorized is true resolves true and does nothing else: no connect(),
\* no waiter, no timer, no field of the manager changed.
C23_FastPath ==
    [][ (op'.name = "ensureAuthorized" /\ ws = "OPEN" /\ authorized)
        => /\ fx' = << Fx("resolve", "", "true", op'.c) >>
           /\ UNCHANGED << mgrVars, orphans, calls >>
      ]_vars

\* The call has returned true at once on an open, authorized transport.
C23_Witness ==
    /\ op.name = "ensureAuthorized"
    /\ fx = << Fx("resolve", "", "true", op.c) >>
    /\ ws = "OPEN" /\ state = "open" /\ authorized
    /\ awaitingAuthResolve = 0
    /\ \A c \in CallIds : calls[c].status = "none" /\ ~calls[c].timer

\* C24 (as claimed): this.state changes only along idle/closed -> connecting
\* (connect), connecting -> open (open event), connecting -> closed
\* (construction failure, close event, close()), open -> closing -> closed
\* (close(); from connecting and closed too, for the length of the call) and
\* open -> closed (close event); it becomes
\* "open" only from "connecting", and no event of a replaced transport sets it
\* to "closed" while the manager's transport is connecting or open.
C24_StateEdges ==
    [][ /\ \A i \in DOMAIN fx' :
              (fx'[i].e = "state" /\ StateAt(fx', i, state) # fx'[i].k)
              => << StateAt(fx', i, state), fx'[i].k >> \in
                    { << "idle", "connecting" >>, << "closed", "connecting" >>,
                      << "connecting", "open" >>, << "connecting", "closed" >>,
                      << "open", "closing" >>, << "connecting", "closing" >>,
                      << "closing", "closed" >>, << "open", "closed" >>,
                      << "closed", "closing" >>, << "idle", "closed" >> }
        /\ (op'.name = "onclose" /\ op'.who = Orphan
              /\ ws \in {"CONNECTING", "OPEN"})
           => state' = state
      ]_vars

\* C25 (as claimed): a heartbeat timer is active exactly while this.state is
\* "open": started by the open event, stopped by whatever takes the state out
\* of "open".
C25_HeartbeatTracksOpen ==
    heartbeatTimer <=> (state = "open")

\* C26: at most one reconnect timeout is pending at any time, and it is the
\* one this.reconnectTimer holds; a close event or a failed construction that
\* asks for a reconnect while one is pending sets no timer and leaves the
\* attempt counter as it is.
C26_SingleReconnectTimer ==
    /\ [](reconnectTimeouts = IF reconnectTimer THEN 1 ELSE 0)
    /\ [][ (reconnectTimer /\ op'.name # "reconnectFire"
              /\ ~FxHas(fx', "close"))
           => /\ ~FxHas(fx', "schedule") /\ ~FxHas(fx', "setTimeout")
              /\ reconnectTimeouts' = reconnectTimeouts
              /\ op'.name # "onopen" => reconnectAttempts' = reconnectAttempts
         ]_vars

\* A second transport closes while the reconnect scheduled for the first is
\* pending: the handler ran to the request and nothing was scheduled.
C26_Witness ==
    /\ op.name = "onclose"
    /\ ~explicitlyClosed
    /\ reconnectTimer
    /\ reconnectTimeouts = 1
    /\ ~FxHas(fx, "schedule")

\* C27: this.reconnectAttempts is always in 0..10; an open event sets it to 0,
\* each reconnect scheduled sets it to min(previous + 1, 10), and nothing
\* else, close() included, changes it.
C27_AttemptCounter ==
    /\ [](reconnectAttempts \in 0..10)
    /\ [][ LET from == IF op'.name = "onopen" THEN 0 ELSE reconnectAttempts
           IN  reconnectAttempts' = Min(from + FxCount(fx', "schedule"), 10)
         ]_vars

\* close() called with the counter at its clamp: the counter stays.
C27_Witness ==
    /\ op.name = "close"
    /\ reconnectAttempts = MAX_ATTEMPT
    /\ scheduled > MAX_ATTEMPT

\* C28: Authorized is reset per attempt. While the state is Connecting, and
\* while the manager holds no transport, the Authorized flag is false; the
\* flag turns true only in a step that handles an authorizing frame (an
\* auth_success or a business frame) received on the current transport.
C28_AuthorizedPerAttempt ==
    /\ []((state = "connecting" \/ ws = NULL) => ~authorized)
    /\ [][ (~authorized /\ authorized')
             => /\ op'.name = "onmessage"
                /\ op'.who = Cur
                /\ op'.k \in {"auth_success"} \cup BusinessTypes ]_vars

\* C29: auth_success always releases the waiter. Whenever an auth_success
\* frame is handled while a waiter is registered, that waiter is resolved
\* with true in the same step and the slot is empty afterwards, whether or
\* not Authorized was already true, whether or not a send of the flush fails
\* and whether or not the onAuthSuccess callback throws.
C29_AuthSuccessReleasesWaiter ==
    [][ (op'.name = "onmessage" /\ op'.k = "auth_success"
         /\ awaitingAuthResolve # 0)
            => /\ Resolved(fx', awaitingAuthResolve, "true")
               /\ awaitingAuthResolve' = 0 ]_vars

\* C30: Authorization frame per open. With a credential token available, the
\* step that handles a transport's open event writes exactly one authorization
\* frame, to the transport that opened (which is still this.ws as the frame is
\* written), after the onOpen callback was invoked and before any send()
\* payload is transmitted; no other step writes an authorization frame.
C30_AuthorizationPerOpen ==
    [][ LET written == {i \in DOMAIN fx' :
                            /\ fx'[i].e \in {"tx", "txthrow", "txdrop"}
                            /\ fx'[i].k = AuthFrame}
        IN  IF op'.name = "onopen" /\ op'.k = "token"
            THEN /\ Cardinality(written) = 1
                 /\ op'.who = Cur
                 /\ \A i \in written :
                        /\ \E j \in 1..(i - 1) :
                               fx'[j].e = "cb" /\ fx'[j].k = "onOpen"
                        /\ \A j \in 1..(i - 1) :
                               /\ fx'[j].e \notin {"new", "close"}
                               /\ ~(fx'[j].e = "tx" /\ fx'[j].k = "data")
            ELSE written = {} ]_vars

\* C31: Transport construction failure. In a step in which new WebSocket()
\* throws inside connect(), the state ends Closed, the operation goes on as
\* if connect() had returned (ensureAuthorized still registers its waiter),
\* no callback is invoked after the throw, the failure adds nothing to and
\* takes nothing from the queue (which holds what the step's send enqueued,
\* or nothing when this connect() called close() first), the
\* explicitly-closed flag is false and exactly one reconnect timeout is
\* pending: the one scheduled after the throw, or the one that was pending
\* (and has not just fired, nor been cleared by this connect()'s close()).
C31_ConstructionFailure ==
    [][ \A i \in DOMAIN fx' :
            fx'[i].e = "newthrow"
                => /\ state' = "closed"
                   /\ ~explicitlyClosed'
                   /\ \A j \in (i + 1)..Len(fx') :
                          fx'[j].e \notin {"cb", "onMessage", "newthrow"}
                   /\ op'.name = "ensureAuthorized"
                          => \E j \in (i + 1)..Len(fx') : fx'[j].e = "wait"
                   /\ sendQueue' =
                          IF FxHas(fx', "close") THEN <<>>
                          ELSE IF FxHas(fx', "send")
                          THEN Append(sendQueue, NextPayload(sendQueue))
                          ELSE sendQueue
                   /\ reconnectTimer' /\ reconnectTimeouts' = 1
                   /\ FxCount(fx', "schedule") =
                          (IF /\ reconnectTimer
                              /\ op'.name # "reconnectFire"
                              /\ ~FxHas(fx', "close")
                           THEN 0 ELSE 1)
                   /\ \A j \in DOMAIN fx' :
                          fx'[j].e = "schedule" => j > i ]_vars

\* connect(), called by the caller with no timer pending, has met a throwing
\* constructor: Closed, one timer scheduled, the queue as it was.
C31_Witness ==
    /\ op.name = "connect"
    /\ FxHas(fx, "newthrow")
    /\ FxCount(fx, "schedule") = 1
    /\ state = "closed"
    /\ reconnectTimer
    /\ sendQueue # <<>>

\* C32: updateSessionContext frame. Called while the state is not Open, or
\* while it is Open with the endpoint, the session and the mode all equal to
\* the stored ones, updateSessionContext only stores the triple: state,
\* transport, queue, Authorized, explicitly-closed flag, timers and waiters
\* are unchanged and close() is not called. Called while the state is Open
\* with any one of the three different, it calls close() exactly once.
C32_ContextFrame ==
    [][ op'.name = "updateSessionContext"
            => IF /\ state = "open"
                  /\ \/ url' # url
                     \/ sessionId' # sessionId
                     \/ isAssistantMode' # isAssistantMode
               THEN FxCount(fx', "close") = 1
               ELSE /\ fx' = <<>>
                    /\ UNCHANGED << ws, state, sendQueue, authorized,
                                    explicitlyClosed, reconnectTimer,
                                    reconnectTimeouts, heartbeatTimer,
                                    reconnectAttempts, awaitingAuthResolve,
                                    calls, orphans, connectedUrl,
                                    connectedSessionId >> ]_vars

\* C33: No context, no connection. While the endpoint or the session
\* identifier is unset, connect() changes nothing in the manager; no
\* operation or event other than updateSessionContext constructs a transport
\* or schedules a reconnect timer: a send() only enqueues, an
\* ensureAuthorized() only registers its waiter, a close event sets the state,
\* and a reconnect timer that fires only clears itself.
C33_NoContextNoConnection ==
    [][ ((url = NULL \/ sessionId = NULL) /\ op'.name # "updateSessionContext")
            => /\ ~FxHas(fx', "new") /\ ~FxHas(fx', "newthrow")
               /\ ~FxHas(fx', "schedule") /\ ~FxHas(fx', "setTimeout")
               /\ ~reconnectTimer => ~reconnectTimer'
               /\ op'.name = "connect"
                      => /\ fx' = << Fx("connect", "", "", 0) >>
                         /\ UNCHANGED << mgrVars, orphans, calls >>
               /\ op'.name = "reconnectFire"
                      => UNCHANGED << ws, state, sendQueue, authorized,
                                     explicitlyClosed, orphans, calls >>
               /\ op'.name \in {"send", "ensureAuthorized"}
                      => UNCHANGED << ws, state, orphans, authorized,
                                     explicitlyClosed >> ]_vars

\* The close event of a transport met an unset context with a reconnect
\* allowed (no explicit close, no timer pending) and scheduled nothing.
C33_Witness ==
    /\ op.name = "onclose"
    /\ sessionId = NULL
    /\ ~explicitlyClosed
    /\ ~reconnectTimer
    /\ state = "closed"

\* C34: Timer cancellation on invalidation. No reconnect timer is pending
\* while the state is Connecting or Open, a connect() called by the caller
\* while one is pending included; and the timeout timer of an
\* ensureAuthorized call is no longer pending once that call has been
\* resolved with true.
C34_TimerCancellation ==
    /\ [](state \in {"connecting", "open"} => ~reconnectTimer)
    /\ [][ \A c \in CallIds :
               (calls[c].timer /\ Resolved(fx', c, "true"))
                   => ~calls'[c].timer ]_vars

\* connect() got past its guards in f and began an attempt (lines 91-93).
BeganAttempt(f) == \E i \in DOMAIN f : f[i].e = "state" /\ f[i].k = "connecting"

\* C35: Clearing the explicitly-closed flag, as the code has it. Once close()
\* has set the flag, no reconnect is scheduled and no reconnect timer is
\* pending until a connect() begins a new attempt; a connect() that begins an
\* attempt leaves the flag clear, and nothing else clears it:
\* updateSessionContext leaves a set flag set.
C35_FlagClearedByConnect ==
    /\ [](explicitlyClosed => ~reconnectTimer)
    /\ [][ /\ (explicitlyClosed /\ ~explicitlyClosed') => BeganAttempt(fx')
           /\ BeganAttempt(fx') => ~explicitlyClosed'
           /\ (explicitlyClosed /\ ~BeganAttempt(fx'))
                  => ~FxHas(fx', "schedule")
           /\ (explicitlyClosed /\ op'.name = "updateSessionContext")
                  => explicitlyClosed' ]_vars

\* close(), then updateSessionContext for another session: the context is
\* stored and the flag is still set.
C35_Witness ==
    /\ op.name = "updateSessionContext"
    /\ fx = <<>>
    /\ sessionId = "s2"
    /\ explicitlyClosed
    /\ ws = NULL

\* C35 as stated: after close() no reconnect is scheduled until connect()
\* begins a new attempt or updateSessionContext is called; each of the two
\* clears the explicitly-closed flag, and nothing else does.
C35_FlagClearedByConnectOrContext ==
    [][ /\ (explicitlyClosed /\ ~explicitlyClosed')
               => BeganAttempt(fx') \/ op'.name = "updateSessionContext"
        /\ BeganAttempt(fx') => ~explicitlyClosed'
        /\ op'.name = "updateSessionContext" => ~explicitlyClosed'
        /\ ( /\ explicitlyClosed
             /\ ~BeganAttempt(fx')
             /\ op'.name # "updateSessionContext" )
               => ~FxHas(fx', "schedule") ]_vars

\* C36: Discarded transports are inert. Once a transport has been replaced
\* (this.ws refers to a later one, connecting or open), its open, message,
\* close or error event leaves the state,
\* the Authorized flag and the heartbeat timer as they are, transmits nothing
\* on the current transport, takes nothing from the queue and schedules no
\* reconnect.
C36_DiscardedTransportsInert ==
    [][ (op'.who = Orphan /\ ws \in {"CONNECTING", "OPEN"})
            => /\ UNCHANGED << state, authorized, heartbeatTimer, sendQueue,
                               reconnectTimer, reconnectAttempts >>
               /\ \A i \in DOMAIN fx' :
                      fx'[i].e \notin {"tx", "txthrow", "txdrop", "schedule",
                                       "new"} ]_vars

\* C37: Waiters do not interfere through timeouts. The timeout of one
\* ensureAuthorized call leaves the waiter registered by another call in the
\* slot; so an authorizing frame handled on the current transport while calls
\* are pending resolves one of them (the one that registered last) with true.
C37_WaitersDoNotInterfere ==
    [][ /\ ( /\ op'.name = "ensureTimeout"
             /\ awaitingAuthResolve # 0
             /\ awaitingAuthResolve # op'.c )
           => awaitingAuthResolve' = awaitingAuthResolve
        /\ ( /\ Authorizing(op', authorized) /\ op'.who = Cur
             /\ \E c \in DOMAIN calls : calls[c].status = "pending" )
           => \E c \in DOMAIN calls :
                  calls[c].status = "pending" /\ Resolved(fx', c, "true") ]_vars

\* C39: ensureAuthorized always returns. Every call that is pending is
\* eventually resolved, whatever other calls, close(), reconnects and frames
\* come in between, its timer being allowed to fire; and a call is resolved
\* at most once: only as it is made or while it is pending, by one resolve,
\* after which it is no longer pending and its timer is no longer set.
C39_EnsureAuthorizedReturns ==
    /\ \A c \in WaiterIds :
           (calls[c].status = "pending") ~> (calls[c].status = "none")
    /\ [][ \A c \in DOMAIN calls :
               LET n == Cardinality({i \in DOMAIN fx' :
                                        fx'[i].e = "resolve" /\ fx'[i].n = c})
               IN  /\ n <= 1
                   /\ n = 1 => /\ \/ calls[c].status = "pending"
                                  \/ op'.name = "ensureAuthorized" /\ op'.c = c
                               /\ calls'[c].status = "none"
                   /\ (calls[c].status = "pending" /\ n = 0)
                          => calls'[c].status = "pending" /\ calls'[c].timer
          ]_vars

\* Call 1's waiter was overwritten by call 2, and call 1 has just been
\* resolved, by its own timeout, while call 2 is still pending.
C39_Witness ==
    /\ op.name = "ensureTimeout" /\ op.c = 1
    /\ Resolved(fx, 1, "false")
    /\ calls[2].status = "pending"
    /\ ContextSet

\* C38: ensureAuthorized soundness. Whenever an ensureAuthorized call
\* resolves true, the manager's current transport is open and the Authorized
\* flag is true as the step ends, so that a send() issued next takes the
\* direct path.
C38_EnsureAuthorizedSound ==
    [][ (\E i \in DOMAIN fx' : fx'[i].e = "resolve" /\ fx'[i].k = "true")
            => /\ ws' = "OPEN"
               /\ authorized' ]_vars

=============================================================================
